---- MODULE Spec2Model ----
(***************************************************************************)
(* A model of pywwt/layers.py: the lon/lat column guesser, the TableLayer  *)
(* trait protocol (validate, observe, messages to the parent) and the      *)
(* LayerManager container.                                                 *)
(*                                                                         *)
(* Column names and the other Unicode traits that hold column names are    *)
(* sequences of one-character strings, so that lower() and startswith()    *)
(* are computed character by character.  Units are tokens.                 *)
(***************************************************************************)
EXTENDS Naturals, Sequences, FiniteSets, TLC

VARIABLES guess_in, guess_out, layers, mgr_layers, msgs, nmut, last

vars == <<guess_in, guess_out, layers, mgr_layers, msgs, nmut, last>>

(***************************************************************************)
(* Bounds                                                                  *)
(***************************************************************************)
\* longest column-name list handed to the guesser on its own
MaxCols == 4
\* number of TableLayer objects ever constructed
MaxLayers == 2
\* number of calls the user makes
MaxOps == 3
\* the same two bounds where layers are added to and removed from the manager
MaxLifeLayers == 3
MaxLifeOps == 4

(***************************************************************************)
(* Strings                                                                 *)
(***************************************************************************)
\* Python's None where a column name is expected (distinct from '')
None == <<"<None>">>

\* the empty string ''
Empty == << >>

\* str.lower() on the letters the column names use
LowerChar(ch) ==
    CASE ch = "R" -> "r" [] ch = "A" -> "a" [] ch = "D" -> "d"
      [] ch = "E" -> "e" [] ch = "C" -> "c" [] ch = "L" -> "l"
      [] ch = "T" -> "t" [] ch = "V" -> "v" [] OTHER -> ch

Lower(s) == [i \in 1..Len(s) |-> LowerChar(s[i])]

\* a slip: the stem is looked for anywhere in the name
StartsWithAnywhere(s, prefix) ==
    \E k \in 1..Len(s) :
        /\ k + Len(prefix) - 1 <= Len(s)
        /\ SubSeq(s, k, k + Len(prefix) - 1) = prefix

\* str.startswith(prefix)
StartsWith(s, prefix) ==
    /\ Len(prefix) <= Len(s)
    /\ SubSeq(s, 1, Len(prefix)) = prefix

\* list.count(x)
Count(lst, x) == Cardinality({i \in 1..Len(lst) : lst[i] = x})

\* sum() of a list of booleans
SumTrue(bools) == Cardinality({i \in 1..Len(bools) : bools[i]})

\* list.index(True): the first position holding True
IndexTrue(bools) ==
    CHOOSE i \in 1..Len(bools) :
        bools[i] /\ \A j \in 1..(i-1) : ~bools[j]

\* x in list
InList(x, lst) == \E i \in 1..Len(lst) : lst[i] = x

(***************************************************************************)
(* guess_lon_lat_columns                                                   *)
(***************************************************************************)
StemPairs ==
    << <<(<<"r","a">>), (<<"d","e","c">>)>>,
       <<(<<"l","o","n">>), (<<"l","a","t">>)>>,
       <<(<<"l","n","g">>), (<<"l","a","t">>)>> >>

\* the body of the for loop for the stem pairs k, k+1, ... (None, None)
\* when the loop runs out
RECURSIVE GuessFrom(_, _)
GuessFrom(colnames, k) ==
    IF k > Len(StemPairs) THEN <<None, None>>
    ELSE
      LET lon == StemPairs[k][1]
          lat == StemPairs[k][2]
          colnames_lower == [i \in 1..Len(colnames) |-> Lower(colnames[i])]
          lon_match == [i \in 1..Len(colnames) |-> StartsWith(colnames_lower[i], lon)]
          lat_match == [i \in 1..Len(colnames) |-> StartsWith(colnames_lower[i], lat)]
      IN  IF Count(colnames_lower, lon) = 1 /\ Count(colnames_lower, lat) = 1
          THEN <<lon, lat>>
          ELSE IF SumTrue(lon_match) = 1 /\ SumTrue(lat_match) = 1
          THEN <<colnames[IndexTrue(lon_match)], colnames[IndexTrue(lat_match)]>>
          ELSE GuessFrom(colnames, k + 1)

guess_lon_lat_columns(colnames) == GuessFrom(colnames, 1)

(***************************************************************************)
(* The guesser on its own: every list of at most MaxCols names             *)
(***************************************************************************)
GuessNames ==
    { <<"R","A">>, <<"D","e","c">>, <<"d","e","c">>,
      <<"l","o","n">>, <<"L","A","T">>, <<"l","n","g">>,
      <<"p","m","_","r","a">>, <<"r","a","d">> }

NameLists == UNION { [1..n -> GuessNames] : n \in 0..MaxCols }

NoCall == [called |-> FALSE, lon |-> None, lat |-> None]

\* a call of guess_lon_lat_columns(guess_in)
Guess ==
    /\ ~guess_out.called
    /\ guess_in \in NameLists
    /\ LET g == guess_lon_lat_columns(guess_in)
       IN  guess_out' = [called |-> TRUE, lon |-> g[1], lat |-> g[2]]
    /\ UNCHANGED <<guess_in, layers, mgr_layers, msgs, nmut, last>>

(***************************************************************************)
(* Units (astropy.units), as tokens                                        *)
(***************************************************************************)
\* a unit-valued trait holds a pair: <<"none", "None">> for None,
\* <<"str", s>> for a string not yet parsed, <<"unit", u>> for a unit object
NoUnit == <<"none", "None">>

VALID_LON_UNITS ==
    << [unit |-> "deg", name |-> "degrees"],
       [unit |-> "hour", name |-> "hours"],
       [unit |-> "hourangle", name |-> "hours"] >>

VALID_ALT_UNITS ==
    << [unit |-> "m", name |-> "meters"],
       [unit |-> "ft", name |-> "feet"],
       [unit |-> "inch", name |-> "inches"],
       [unit |-> "mi", name |-> "miles"],
       [unit |-> "km", name |-> "kilometers"],
       [unit |-> "AU", name |-> "astronomicalUnits"],
       [unit |-> "lyr", name |-> "lightYears"],
       [unit |-> "pc", name |-> "parsecs"],
       [unit |-> "Mpc", name |-> "megaParsecs"] >>

VALID_ALT_TYPES == {"depth", "altitude", "distance", "seaLevel", "terrain"}

\* unit names u.Unit() parses with the default registry; "1000 m" is the
\* composite unit that equals km without being the km object
DefaultUnitStrings ==
    {"deg", "hour", "hourangle", "m", "km", "AU", "lyr", "pc", "Mpc", "Jy", "1000 m"}

\* unit names u.Unit() parses only inside u.imperial.enable()
ImperialUnitStrings == {"ft", "inch", "mi"}

\* unit == valid_unit (astropy compares by value)
UnitEq(a, b) == a = b \/ {a, b} = {"1000 m", "km"}

\* u.Unit(value): a unit object is returned as it is, a string is parsed,
\* None raises TypeError and an unknown name ValueError
ParseUnit(value, imperial) ==
    IF value[1] = "unit" THEN [ok |-> TRUE, unit |-> value[2], exc |-> ""]
    ELSE IF value[1] = "str"
            /\ (value[2] \in DefaultUnitStrings
                \/ (imperial /\ value[2] \in ImperialUnitStrings))
         THEN [ok |-> TRUE, unit |-> value[2], exc |-> ""]
    ELSE [ok |-> FALSE, unit |-> "None",
          exc |-> IF value[1] = "none" THEN "TypeError" ELSE "ValueError"]

\* the first valid unit equal to unit, else unit itself
pick_unit_if_available(unit, valid_units) ==
    IF \E i \in 1..Len(valid_units) : UnitEq(unit, valid_units[i].unit)
    THEN valid_units[CHOOSE i \in 1..Len(valid_units) :
                        /\ UnitEq(unit, valid_units[i].unit)
                        /\ \A j \in 1..(i-1) : ~UnitEq(unit, valid_units[j].unit)].unit
    ELSE unit

\* unit in VALID_..._UNITS (a dict lookup: the very key object)
InUnits(unit, valid_units) == \E i \in 1..Len(valid_units) : valid_units[i].unit = unit

\* VALID_..._UNITS[unit]
UnitName(unit, valid_units) ==
    valid_units[CHOOSE i \in 1..Len(valid_units) : valid_units[i].unit = unit].name

\* the validators return [ok, value, exc]; ok = FALSE stands for the
\* exception exc
check_lon_unit(value) ==
    LET p == ParseUnit(value, FALSE)
        unit == pick_unit_if_available(p.unit, VALID_LON_UNITS)
    IN  IF p.ok /\ InUnits(unit, VALID_LON_UNITS)
        THEN [ok |-> TRUE, value |-> <<"unit", unit>>, exc |-> ""]
        ELSE [ok |-> FALSE, value |-> value,
              exc |-> IF p.ok THEN "ValueError" ELSE p.exc]

check_alt_unit(value) ==
    LET p == ParseUnit(value, TRUE)
        unit == pick_unit_if_available(p.unit, VALID_ALT_UNITS)
    IN  IF p.ok /\ InUnits(unit, VALID_ALT_UNITS)
        THEN [ok |-> TRUE, value |-> <<"unit", unit>>, exc |-> ""]
        ELSE [ok |-> FALSE, value |-> value,
              exc |-> IF p.ok THEN "ValueError" ELSE p.exc]

\* a slip: every altitude type is accepted
check_alt_type_any(value) == [ok |-> TRUE, value |-> value, exc |-> ""]

check_alt_type(value) ==
    IF value \in VALID_ALT_TYPES
    THEN [ok |-> TRUE, value |-> value, exc |-> ""]
    ELSE [ok |-> FALSE, value |-> value, exc |-> "ValueError"]

(***************************************************************************)
(* Traits of TableLayer                                                    *)
(***************************************************************************)
TraitNames ==
    {"lon_att", "lon_unit", "lat_att", "alt_att", "alt_unit", "alt_type",
     "cmap_att", "size_att", "size_scale", "color", "opacity"}

UnitTraits == {"lon_unit", "alt_unit"}

\* trait_metadata(name, 'wwt')
WwtName(name) ==
    CASE name = "lon_att" -> "lngColumn"
      [] name = "lon_unit" -> "raUnits"
      [] name = "lat_att" -> "latColumn"
      [] name = "alt_att" -> "altColumn"
      [] name = "alt_unit" -> "altUnit"
      [] name = "alt_type" -> "altType"
      [] name = "cmap_att" -> "colorMapColumn"
      [] name = "size_att" -> "sizeColumn"
      [] name = "size_scale" -> "scaleFactor"
      [] name = "color" -> "color"
      [] name = "opacity" -> "opacity"

\* a slip: only the unit traits are validated
ValidateUnitsOnly(name, value) ==
    CASE name = "lon_unit" -> check_lon_unit(value)
      [] name = "alt_unit" -> check_alt_unit(value)
      [] OTHER -> [ok |-> TRUE, value |-> value, exc |-> ""]

\* the @validate hook of a trait (cross-validation); traits without one
\* accept the value as it is
Validate(name, value) ==
    CASE name = "lon_unit" -> check_lon_unit(value)
      [] name = "alt_unit" -> check_alt_unit(value)
      [] name = "alt_type" -> check_alt_type(value)
      [] OTHER -> [ok |-> TRUE, value |-> value, exc |-> ""]

\* old_value == new_value, as traitlets asks before it notifies
TraitEq(name, a, b) ==
    IF name \in UnitTraits
    THEN \/ a[1] = "none" /\ b[1] = "none"
         \/ a[1] # "none" /\ b[1] # "none" /\ UnitEq(a[2], b[2])
    ELSE a = b

(***************************************************************************)
(* Tables (astropy.table.Table): a sequence of columns, each a name and a  *)
(* unit ("None" when the column has none)                                  *)
(***************************************************************************)
ColNames(table) == [i \in 1..Len(table) |-> table[i].name]

\* table[name].unit; the caller has checked that the column exists
ColumnUnit(table, name) ==
    table[CHOOSE i \in 1..Len(table) : table[i].name = name].unit

(***************************************************************************)
(* One call in progress.  A context c holds the layer the call works on    *)
(* (L), the manager's list (mgr), the messages handed to                   *)
(* parent._send_msg so far (out), the number of trait values stored that   *)
(* differed from the old value (nmut), and whether an exception is         *)
(* propagating (err) and which (exc), and how often remove() and           *)
(* remove_layer() have been entered (enter).                               *)
(***************************************************************************)
Raise(c, exc) == [c EXCEPT !.err = TRUE, !.exc = exc]

\* parent._send_msg(event=..., id=self.id, ...); mut is the number of the
\* trait change a table_layer_set reports (0: none)
SendMsg(c, event, setting, value, mut) ==
    [c EXCEPT !.out = Append(@, [event |-> event, id |-> c.L.id,
                                 setting |-> setting, value |-> value,
                                 mut |-> mut])]

\* a slip: the unit's own name is sent, not its display name
on_trait_change_raw_unit(c, name, new, mut) ==
    LET wwt_name == WwtName(name)
    IN  IF name = "alt_unit"
        THEN LET v == check_alt_unit(new)
             IN  IF v.ok
                 THEN SendMsg(c, "table_layer_set", wwt_name, v.value[2], mut)
                 ELSE Raise(c, v.exc)
        ELSE IF name = "lon_unit"
        THEN LET v == check_lon_unit(new)
             IN  IF v.ok
                 THEN SendMsg(c, "table_layer_set", wwt_name, v.value[2], mut)
                 ELSE Raise(c, v.exc)
        ELSE SendMsg(c, "table_layer_set", wwt_name, new, mut)

\* TableLayer._on_trait_change(changed)
on_trait_change(c, name, new, mut) ==
    LET wwt_name == WwtName(name)
    IN  IF name = "alt_unit"
        THEN LET v == check_alt_unit(new)
             IN  IF v.ok
                 THEN SendMsg(c, "table_layer_set", wwt_name,
                              UnitName(v.value[2], VALID_ALT_UNITS), mut)
                 ELSE Raise(c, v.exc)
        ELSE IF name = "lon_unit"
        THEN LET v == check_lon_unit(new)
             IN  IF v.ok
                 THEN SendMsg(c, "table_layer_set", wwt_name,
                              UnitName(v.value[2], VALID_LON_UNITS), mut)
                 ELSE Raise(c, v.exc)
        ELSE SendMsg(c, "table_layer_set", wwt_name, new, mut)

\* self.alt_unit = unit, self.lon_unit = unit outside the constructor's
\* keyword pass, as traitlets runs it: validate, store, and call the
\* observers when the value differs from the old one; these traits have no
\* @observe handler, their only observer is _on_trait_change
SetUnitTrait(c, name, value) ==
    IF c.err THEN c
    ELSE LET v == Validate(name, value)
         IN  IF ~v.ok THEN Raise(c, v.exc)
             ELSE LET c1 == [c EXCEPT !.L[name] = v.value]
                  IN  IF TraitEq(name, c.L[name], v.value) THEN c1
                      ELSE on_trait_change([c1 EXCEPT !.nmut = @ + 1],
                                           name, v.value, c.nmut + 1)

\* a slip: a column without a unit is taken to be in metres
on_alt_att_change_default_m(c) ==
    IF c.L.alt_att = Empty THEN c
    ELSE IF ~InList(c.L.alt_att, ColNames(c.L.table)) THEN Raise(c, "KeyError")
    ELSE LET unit == pick_unit_if_available(ColumnUnit(c.L.table, c.L.alt_att),
                                            VALID_ALT_UNITS)
         IN  IF InUnits(unit, VALID_ALT_UNITS)
             THEN SetUnitTrait(c, "alt_unit", <<"unit", unit>>)
             ELSE IF unit = "None"
             THEN SetUnitTrait(c, "alt_unit", <<"unit", "m">>)
             ELSE c

\* TableLayer._on_alt_att_change (the warning for a unit that is no
\* altitude unit changes no state and is left out)
on_alt_att_change(c) ==
    IF c.L.alt_att = Empty THEN c
    ELSE IF ~InList(c.L.alt_att, ColNames(c.L.table)) THEN Raise(c, "KeyError")
    ELSE LET unit == pick_unit_if_available(ColumnUnit(c.L.table, c.L.alt_att),
                                            VALID_ALT_UNITS)
         IN  IF InUnits(unit, VALID_ALT_UNITS)
             THEN SetUnitTrait(c, "alt_unit", <<"unit", unit>>)
             ELSE c

\* TableLayer._on_lon_att_change
on_lon_att_change(c) ==
    IF c.L.lon_att = Empty THEN c
    ELSE IF ~InList(c.L.lon_att, ColNames(c.L.table)) THEN Raise(c, "KeyError")
    ELSE LET unit == pick_unit_if_available(ColumnUnit(c.L.table, c.L.lon_att),
                                            VALID_LON_UNITS)
         IN  IF InUnits(unit, VALID_LON_UNITS)
             THEN SetUnitTrait(c, "lon_unit", <<"unit", unit>>)
             ELSE c

\* the observers of one change, in the order traitlets calls them: those
\* registered for the trait's name (@observe, at instance creation), then
\* those registered for every trait (self.observe(self._on_trait_change));
\* an exception in one ends the notification
NotifyChange(c, name, new, mut) ==
    LET c1 == IF name = "alt_att" THEN on_alt_att_change(c)
              ELSE IF name = "lon_att" THEN on_lon_att_change(c)
              ELSE c
    IN  IF c1.err THEN c1 ELSE on_trait_change(c1, name, new, mut)

\* self.<name> = value outside the constructor's keyword pass, as traitlets
\* runs it: validate, store, and call the observers when the value differs
\* from the old one
SetTrait(c, name, value) ==
    IF c.err THEN c
    ELSE LET v == Validate(name, value)
         IN  IF ~v.ok THEN Raise(c, v.exc)
             ELSE LET c1 == [c EXCEPT !.L[name] = v.value]
                  IN  IF TraitEq(name, c.L[name], v.value) THEN c1
                      ELSE NotifyChange([c1 EXCEPT !.nmut = @ + 1],
                                        name, v.value, c.nmut + 1)

(***************************************************************************)
(* HasTraits.__init__ with the keywords, as traitlets runs it: inside     *)
(* hold_trait_notifications() every keyword is stored without              *)
(* cross-validation and its change is held; on leaving, the held traits    *)
(* are cross-validated (the validators raise ValueError or TypeError,      *)
(* which no rollback catches), and then, whether or not that raised, the   *)
(* held changes are notified in keyword order.                             *)
(* kwargs is a sequence of <<name, value>> pairs with distinct names.      *)
(***************************************************************************)
\* setattr(self, key, value) for kwargs[k..]; h = [c, cache]
RECURSIVE HoldSets(_, _, _)
HoldSets(h, kwargs, k) ==
    IF k > Len(kwargs) THEN h
    ELSE LET name == kwargs[k][1]
             value == kwargs[k][2]
             c1 == [h.c EXCEPT !.L[name] = value]
         IN  IF TraitEq(name, h.c.L[name], value)
             THEN HoldSets([h EXCEPT !.c = c1], kwargs, k + 1)
             ELSE HoldSets([c |-> [c1 EXCEPT !.nmut = @ + 1],
                            cache |-> Append(h.cache,
                                [name |-> name, new |-> value,
                                 mut |-> h.c.nmut + 1])],
                           kwargs, k + 1)

\* the cross-validation of the held traits cache[k..]; the validated value
\* equals the stored one, so storing it notifies nothing
RECURSIVE CrossValidateHeld(_, _, _)
CrossValidateHeld(c, cache, k) ==
    IF k > Len(cache) THEN c
    ELSE LET name == cache[k].name
             v == Validate(name, c.L[name])
         IN  IF ~v.ok THEN Raise(c, v.exc)
             ELSE CrossValidateHeld([c EXCEPT !.L[name] = v.value], cache, k + 1)

\* the delayed notifications cache[k..]
RECURSIVE FireHeld(_, _, _)
FireHeld(c, cache, k) ==
    IF k > Len(cache) \/ c.err THEN c
    ELSE FireHeld(NotifyChange(c, cache[k].name, cache[k].new, cache[k].mut),
                  cache, k + 1)

\* leaving hold_trait_notifications(): the cross-validation, then (finally)
\* the delayed notifications, then whatever the cross-validation raised
\* unless an observer raised in the finally block
HoldExit(validated, cache) ==
    IF validated.err
    THEN LET fired == FireHeld([validated EXCEPT !.err = FALSE, !.exc = ""],
                               cache, 1)
         IN  IF fired.err THEN fired ELSE Raise(fired, validated.exc)
    ELSE FireHeld(validated, cache, 1)

HoldValidate(h) == HoldExit(CrossValidateHeld(h.c, h.cache, 1), h.cache)

HasTraitsInit(c, kwargs) ==
    HoldValidate(HoldSets([c |-> c, cache |-> << >>], kwargs, 1))

(***************************************************************************)
(* TableLayer                                                              *)
(***************************************************************************)
\* the fields of a TableLayer as __init__ starts: the trait defaults, no
\* manager, not removed; status tells whether __init__ returned ("live") or
\* raised ("failed": the caller holds no reference to the object)
NewLayer(id, table, frame) ==
    [id |-> id, status |-> "new", table |-> table, frame |-> frame,
     lon_att |-> Empty, lon_unit |-> NoUnit, lat_att |-> Empty,
     alt_att |-> Empty, alt_unit |-> NoUnit, alt_type |-> "",
     cmap_att |-> Empty, size_att |-> Empty,
     size_scale |-> 10, color |-> "white", opacity |-> 1,
     manager |-> "None", removed |-> FALSE]

\* TableLayer._table_b64: the serialised table, stood for by the table
table_b64(L) == L.table

\* TableLayer._initialize_layer
initialize_layer(c) ==
    SendMsg(c, "table_layer_create", "",
            [table |-> table_b64(c.L), frame |-> c.L.frame], 0)

\* sequence[i] of Python exists (else IndexError)
HasIndex(seq, i) == i + 1 <= Len(seq)

\* bool(x) of a column name or None
Truthy(x) == x # None /\ x # Empty

KwargKeys(kwargs) == {kwargs[i][1] : i \in 1..Len(kwargs)}

\* a slip: the colour is forced before the size scale
ForceDefaultsColorFirst(c) ==
    on_trait_change(
        on_trait_change(
            on_trait_change(c, "color", c.L.color, 0),
            "size_scale", c.L.size_scale, 0),
        "opacity", c.L.opacity, 0)

\* __init__, "Force defaults": the three direct calls of _on_trait_change
ForceDefaults(c) ==
    on_trait_change(
        on_trait_change(
            on_trait_change(c, "size_scale", c.L.size_scale, 0),
            "color", c.L.color, 0),
        "opacity", c.L.opacity, 0)

\* a slip: keywords that name no trait are ignored, the others applied
ApplyKwargsIgnoreUnknown(c, kwargs) ==
    HasTraitsInit(c, SelectSeq(kwargs, LAMBDA kv : kv[1] \in TraitNames))

\* __init__: the KeyError for a keyword that names no trait, else
\* super().__init__ with the keywords
ApplyKwargs(c, kwargs) ==
    IF \E key \in KwargKeys(kwargs) : key \notin TraitNames
    THEN Raise(c, "KeyError")
    ELSE HasTraitsInit(c, kwargs)

\* self.lon_att = lon_guess or self.table.colnames[0]
AssignLonGuess(c) ==
    IF Truthy(guess_lon_lat_columns(ColNames(c.L.table))[1])
    THEN SetTrait(c, "lon_att", guess_lon_lat_columns(ColNames(c.L.table))[1])
    ELSE IF HasIndex(ColNames(c.L.table), 0)
    THEN SetTrait(c, "lon_att", ColNames(c.L.table)[1])
    ELSE Raise(c, "IndexError")

\* self.lat_att = lat_guess or self.table.colnames[1]
AssignLatGuess(c) ==
    IF Truthy(guess_lon_lat_columns(ColNames(c.L.table))[2])
    THEN SetTrait(c, "lat_att", guess_lon_lat_columns(ColNames(c.L.table))[2])
    ELSE IF HasIndex(ColNames(c.L.table), 1)
    THEN SetTrait(c, "lat_att", ColNames(c.L.table)[2])
    ELSE Raise(c, "IndexError")

\* __init__: if 'lon_att' not in kwargs: ...
InitLon(c, kwargs) ==
    IF c.err \/ "lon_att" \in KwargKeys(kwargs) THEN c ELSE AssignLonGuess(c)

\* __init__: if 'lat_att' not in kwargs: ...
InitLat(c, kwargs) ==
    IF c.err \/ "lat_att" \in KwargKeys(kwargs) THEN c ELSE AssignLatGuess(c)

\* TableLayer.__init__ on a context whose L is NewLayer(...)
TableLayerInit(c, kwargs) ==
    InitLat(InitLon(ApplyKwargs(ForceDefaults(initialize_layer(c)), kwargs),
                    kwargs),
            kwargs)

\* update_data: self.table = table and the table_layer_update message
UpdateTable(c, table) ==
    SendMsg([c EXCEPT !.L.table = table], "table_layer_update", "",
            [table |-> table, frame |-> ""], 0)

\* a slip: a new table always resets the altitude column
UpdateAltAlwaysResets(c) ==
    IF c.L.alt_att = Empty THEN c ELSE SetTrait(c, "alt_att", Empty)

\* update_data: if len(self.alt_att) > 0: ...
UpdateAlt(c) ==
    IF c.L.alt_att = Empty THEN c
    ELSE IF InList(c.L.alt_att, ColNames(c.L.table)) THEN on_alt_att_change(c)
    ELSE SetTrait(c, "alt_att", Empty)

\* update_data: if self.lon_att in self.table.colnames: ...
UpdateLon(c) ==
    IF c.err THEN c
    ELSE IF InList(c.L.lon_att, ColNames(c.L.table)) THEN on_lon_att_change(c)
    ELSE AssignLonGuess(c)

\* update_data: if self.lat_att not in self.table.colnames: ...
UpdateLat(c) ==
    IF c.err \/ InList(c.L.lat_att, ColNames(c.L.table)) THEN c
    ELSE AssignLatGuess(c)

\* TableLayer.update_data(table)
update_data(c, table) == UpdateLat(UpdateLon(UpdateAlt(UpdateTable(c, table))))

\* one more entry into remove() (k = 1) or remove_layer() (k = 2) during
\* the call in progress
Enter(c, k) == [c EXCEPT !.enter[k] = @ + 1]

\* list.remove(x): without the first x
RECURSIVE ListRemove(_, _)
ListRemove(lst, x) ==
    IF lst = << >> THEN << >>
    ELSE IF Head(lst) = x THEN Tail(lst)
    ELSE <<Head(lst)>> \o ListRemove(Tail(lst), x)

\* a slip: remove_layer does not look again before it takes the layer out
\* of the list
RECURSIVE RemoveCallNoRecheck(_, _)
RemoveCallNoRecheck(c, method) ==
    IF method = "remove"
    THEN IF c.L.removed THEN c
         ELSE LET c1 == SendMsg(c, "table_layer_remove", "", "", 0)
                  c2 == [c1 EXCEPT !.L.removed = TRUE]
              IN  IF c2.L.manager # "None"
                  THEN RemoveCallNoRecheck(Enter(c2, 2), "remove_layer")
                  ELSE c2
    ELSE IF ~InList(c.L.id, c.mgr) THEN Raise(c, "ValueError")
         ELSE LET c1 == RemoveCallNoRecheck(Enter(c, 1), "remove")
              IN  IF c1.err THEN c1
                  ELSE IF InList(c1.L.id, c1.mgr)
                  THEN [c1 EXCEPT !.mgr = ListRemove(@, c1.L.id)]
                  ELSE Raise(c1, "ValueError")

\* a slip: remove() sends its message before it looks at the removed flag
RECURSIVE RemoveCallSendsFirst(_, _)
RemoveCallSendsFirst(c, method) ==
    IF method = "remove"
    THEN LET c1 == SendMsg(c, "table_layer_remove", "", "", 0)
             c2 == [c1 EXCEPT !.L.removed = TRUE]
         IN  IF c.L.removed THEN c1
             ELSE IF c2.L.manager # "None"
             THEN RemoveCallSendsFirst(Enter(c2, 2), "remove_layer")
             ELSE c2
    ELSE IF ~InList(c.L.id, c.mgr) THEN Raise(c, "ValueError")
         ELSE LET c1 == RemoveCallSendsFirst(Enter(c, 1), "remove")
              IN  IF c1.err THEN c1
                  ELSE IF InList(c1.L.id, c1.mgr)
                  THEN [c1 EXCEPT !.mgr = ListRemove(@, c1.L.id)]
                  ELSE c1

\* a slip: remove_layer does not look for the layer in the list first
RECURSIVE RemoveCallNoMembershipCheck(_, _)
RemoveCallNoMembershipCheck(c, method) ==
    IF method = "remove"
    THEN IF c.L.removed THEN c
         ELSE LET c1 == SendMsg(c, "table_layer_remove", "", "", 0)
                  c2 == [c1 EXCEPT !.L.removed = TRUE]
              IN  IF c2.L.manager # "None"
                  THEN RemoveCallNoMembershipCheck(Enter(c2, 2), "remove_layer")
                  ELSE c2
    ELSE LET c1 == RemoveCallNoMembershipCheck(Enter(c, 1), "remove")
         IN  IF InList(c1.L.id, c1.mgr)
             THEN [c1 EXCEPT !.mgr = ListRemove(@, c1.L.id)]
             ELSE c1

\* TableLayer.remove() and LayerManager.remove_layer(layer) call each other;
\* RemoveCall(c, method) is the call of the one named, on the layer c.L
RECURSIVE RemoveCall(_, _)
RemoveCall(c, method) ==
    IF method = "remove"
    THEN IF c.L.removed THEN c
         ELSE LET c1 == SendMsg(c, "table_layer_remove", "", "", 0)
                  c2 == [c1 EXCEPT !.L.removed = TRUE]
              IN  IF c2.L.manager # "None" THEN RemoveCall(Enter(c2, 2), "remove_layer")
                  ELSE c2
    ELSE IF ~InList(c.L.id, c.mgr) THEN Raise(c, "ValueError")
         ELSE LET c1 == RemoveCall(Enter(c, 1), "remove")
              IN  IF c1.err THEN c1
                  ELSE IF InList(c1.L.id, c1.mgr)
                  THEN [c1 EXCEPT !.mgr = ListRemove(@, c1.L.id)]
                  ELSE c1

\* TableLayer.remove()
remove(c) == RemoveCall(Enter(c, 1), "remove")

\* LayerManager.remove_layer(layer), the layer being c.L
remove_layer(c) == RemoveCall(Enter(c, 2), "remove_layer")

\* a slip: the layer is appended but its back-reference is not set
add_layer_no_backref(c) ==
    IF InList(c.L.id, c.mgr) THEN Raise(c, "ValueError")
    ELSE [c EXCEPT !.mgr = Append(@, c.L.id)]

\* LayerManager._add_layer(layer)
add_layer(c) ==
    IF InList(c.L.id, c.mgr) THEN Raise(c, "ValueError")
    ELSE [c EXCEPT !.mgr = Append(@, c.L.id), !.L.manager = "mgr"]

\* LayerManager.add_data_layer with a table: the layer is attached when
\* its constructor returns
AttachNew(c) == IF c.err THEN c ELSE add_layer(c)

add_data_layer(c, kwargs) == AttachNew(TableLayerInit(c, kwargs))

(***************************************************************************)
(* Inputs                                                                  *)
(***************************************************************************)
N_RA == <<"R","A">>
N_Dec == <<"D","e","c">>
N_Vmag == <<"V","m","a","g">>
N_ra == <<"r","a">>
N_dec == <<"d","e","c">>
N_dist == <<"d","i","s","t">>
N_x == <<"x">>
N_zzz == <<"z","z","z">>

Col(name, unit) == [name |-> name, unit |-> unit]

\* the table of the spec's end-to-end scenario
TabSky == <<Col(N_RA, "deg"), Col(N_Dec, "deg"), Col(N_Vmag, "None")>>
TabLower == <<Col(N_ra, "hourangle"), Col(N_dec, "deg"), Col(N_dist, "1000 m")>>
TabXY == <<Col(N_x, "Jy"), Col(N_dist, "pc")>>

Tables == {TabSky, TabLower, TabXY}

\* keyword arguments given to the constructor
KwargsInputs ==
    { << >>,
      << <<"size_scale", 5>> >>,
      << <<"lat_att", N_zzz>> >>,
      << <<"lon_att", N_RA>>, <<"lat_att", N_Dec>> >>,
      << <<"alt_att", N_dist>>, <<"alt_unit", <<"str", "km">> >> >>,
      << <<"alt_type", "bogus">> >>,
      << <<"colour", "red">>, <<"size_scale", 5>> >> }

\* values assigned to a trait of a constructed layer
SetInputs ==
    ({"lon_att"} \X {N_ra, N_Vmag})
    \cup ({"lat_att"} \X {N_dist})
    \cup ({"alt_att"} \X {Empty, N_dist, N_Vmag})
    \cup ({"lon_unit"} \X {<<"str", "hourangle">>, <<"str", "ft">>, NoUnit})
    \cup ({"alt_unit"} \X {<<"str", "ft">>, <<"unit", "1000 m">>, <<"str", "deg">>})
    \cup {<<"alt_type", "depth">>, <<"alt_type", "bogus">>, <<"size_scale", 5>>}

(***************************************************************************)
(* The calls the user makes                                                *)
(***************************************************************************)
\* the ids of the TableLayer objects constructed so far (uuid4: each fresh)
LayerIds == 1..Len(layers)

Ctx(L) ==
    [L |-> L, mgr |-> mgr_layers, out |-> << >>, nmut |-> nmut, err |-> FALSE,
     exc |-> "", enter |-> <<0, 0>>]

\* the record of a call: its number, name, layer, argument, whether it
\* raised and which exception, how many messages it sent, and how often
\* remove() and remove_layer() were entered during it
Called(op, id, arg, exc, sent, entered) ==
    [n |-> last.n + 1, op |-> op, id |-> id, arg |-> arg, raised |-> exc # "",
     exc |-> exc, sent |-> sent, entered |-> entered]

\* what a call on an existing layer leaves behind
Finish(c, op, arg) ==
    /\ layers' = [layers EXCEPT ![c.L.id] = c.L]
    /\ mgr_layers' = c.mgr
    /\ msgs' = msgs \o c.out
    /\ nmut' = c.nmut
    /\ last' = Called(op, c.L.id, arg, c.exc, Len(c.out), c.enter)
    /\ UNCHANGED <<guess_in, guess_out>>

\* what a constructor call leaves behind
FinishNew(c, op, arg) ==
    /\ layers' = Append(layers, [c.L EXCEPT !.status = IF c.err THEN "failed" ELSE "live"])
    /\ mgr_layers' = c.mgr
    /\ msgs' = msgs \o c.out
    /\ nmut' = c.nmut
    /\ last' = Called(op, c.L.id, arg, c.exc, Len(c.out), c.enter)
    /\ UNCHANGED <<guess_in, guess_out>>

Live(id) == id \in LayerIds /\ layers[id].status = "live"

\* layer = TableLayer(parent, table=table, **kwargs)
Construct(table, kwargs) ==
    FinishNew(TableLayerInit(Ctx(NewLayer(Len(layers) + 1, table, "None")), kwargs),
              "construct", kwargs)

\* layer = manager.add_data_layer(table=table, **kwargs)
AddDataLayer(table, kwargs) ==
    FinishNew(add_data_layer(Ctx(NewLayer(Len(layers) + 1, table, "Sky")), kwargs),
              "add_data_layer", kwargs)

\* manager.add_data_layer(): no table, ValueError before any layer exists
AddDataLayerNoTable ==
    /\ last' = Called("add_data_layer_no_table", 0, << >>, "ValueError", 0, <<0, 0>>)
    /\ UNCHANGED <<guess_in, guess_out, layers, mgr_layers, msgs, nmut>>

\* layer.<name> = value
SetAttr(id, name, value) ==
    /\ Live(id)
    /\ Finish(SetTrait(Ctx(layers[id]), name, value), "set", <<name, value>>)

\* layer.update_data(table=table)
UpdateData(id, table) ==
    /\ Live(id)
    /\ Finish(update_data(Ctx(layers[id]), table), "update_data", table)

\* layer.remove()
Remove(id) ==
    /\ Live(id)
    /\ Finish(remove(Ctx(layers[id])), "remove", << >>)

\* manager.remove_layer(layer)
RemoveLayer(id) ==
    /\ Live(id)
    /\ Finish(remove_layer(Ctx(layers[id])), "remove_layer", << >>)

(***************************************************************************)
(* Specifications                                                          *)
(***************************************************************************)
NoLast ==
    [n |-> 0, op |-> "init", id |-> 0, arg |-> << >>, raised |-> FALSE,
     exc |-> "", sent |-> 0, entered |-> <<0, 0>>]

\* a manager with no layers and a parent that has been sent nothing
Init ==
    /\ guess_in = << >>
    /\ guess_out = NoCall
    /\ layers = << >>
    /\ mgr_layers = << >>
    /\ msgs = << >>
    /\ nmut = 0
    /\ last = NoLast

\* layers built directly, their traits assigned and their data replaced
Next ==
    /\ last.n < MaxOps
    /\ \/ /\ Len(layers) < MaxLayers
          /\ \E table \in Tables, kwargs \in KwargsInputs : Construct(table, kwargs)
       \/ \E id \in LayerIds, a \in SetInputs : SetAttr(id, a[1], a[2])
       \/ \E id \in LayerIds, table \in Tables : UpdateData(id, table)

Spec == Init /\ [][Next]_vars

\* layers built directly or through the manager, removed either way, and
\* used after their removal
LifeKwargs == { << >>, << <<"colour", "red">>, <<"size_scale", 5>> >> }

LifeSetInputs == { <<"alt_type", "depth">>, <<"alt_att", N_zzz>> }

NextLife ==
    /\ last.n < MaxLifeOps
    /\ \/ /\ Len(layers) < MaxLifeLayers
          /\ \E table \in {TabSky, TabLower} : Construct(table, << >>)
       \/ /\ Len(layers) < MaxLifeLayers
          /\ \E table \in {TabSky, TabLower}, kwargs \in LifeKwargs :
                AddDataLayer(table, kwargs)
       \/ AddDataLayerNoTable
       \/ \E id \in LayerIds : Remove(id)
       \/ \E id \in LayerIds : RemoveLayer(id)
       \/ \E id \in LayerIds, a \in LifeSetInputs : SetAttr(id, a[1], a[2])
       \/ \E id \in LayerIds : UpdateData(id, TabXY)

SpecLife == Init /\ [][NextLife]_vars

\* the guesser applied to every list of at most MaxCols names
InitGuess ==
    /\ guess_in \in NameLists
    /\ guess_out = NoCall
    /\ layers = << >>
    /\ mgr_layers = << >>
    /\ msgs = << >>
    /\ nmut = 0
    /\ last = NoLast

NextGuess == Guess

SpecGuess == InitGuess /\ [][NextGuess]_vars

(***************************************************************************)
(* Properties                                                              *)
(***************************************************************************)
\* the messages sent for one layer id, in the order sent
MsgsOf(id) == SelectSeq(msgs, LAMBDA m : m.id = id)

\* how many table_layer_remove messages of a log carry the id
RemoveCountIn(log, id) ==
    Cardinality({i \in 1..Len(log) :
                    log[i].id = id /\ log[i].event = "table_layer_remove"})

RemoveCount(id) == RemoveCountIn(msgs, id)

\* the step is call number last'.n, of the operation op
IsCall(op) == last'.n = last.n + 1 /\ last'.op = op

\* C1: for every layer, attached to the manager or not, at most one
\* table_layer_remove message with its id is ever sent; after a remove() or
\* remove_layer(layer) call that returned, exactly one has been sent; and
\* remove() on a layer whose message has been sent changes nothing, sends
\* nothing and does not raise.
C1_RemoveSentOnce ==
    /\ [](\A id \in LayerIds : RemoveCount(id) <= 1)
    /\ [][ /\ ((IsCall("remove") \/ IsCall("remove_layer")) /\ ~last'.raised)
                => RemoveCountIn(msgs', last'.id) = 1
           /\ (IsCall("remove") /\ RemoveCount(last'.id) = 1)
                => /\ ~last'.raised
                   /\ msgs' = msgs
                   /\ layers' = layers
                   /\ mgr_layers' = mgr_layers ]_vars

\* a second remove() on a layer of the manager has returned without a
\* message
C1_Witness ==
    /\ last.op = "remove" /\ ~last.raised /\ last.sent = 0
    /\ layers[last.id].manager = "mgr"
    /\ RemoveCount(last.id) = 1

\* C2: the manager's list holds no layer twice, and every layer in it is a
\* constructed layer whose _manager is the manager.
C2_ManagerListConsistent ==
    /\ \A i, j \in 1..Len(mgr_layers) : mgr_layers[i] = mgr_layers[j] => i = j
    /\ \A i \in 1..Len(mgr_layers) :
          /\ Live(mgr_layers[i])
          /\ layers[mgr_layers[i]].manager = "mgr"

\* one layer is in the list after a failed add and a removal
C2_Witness ==
    /\ Len(mgr_layers) = 1
    /\ \E id \in LayerIds : layers[id].status = "failed"
    /\ \E id \in LayerIds : layers[id].removed /\ layers[id].manager = "mgr"

\* name (lower-cased) equals the stem; has the stem as a prefix
ExactIdx(cols, stem) == {i \in 1..Len(cols) : Lower(cols[i]) = stem}

PrefixIdx(cols, stem) ==
    {i \in 1..Len(cols) :
        /\ Len(stem) <= Len(cols[i])
        /\ \A k \in 1..Len(stem) : Lower(cols[i])[k] = stem[k]}

UniqueExact(cols, k) ==
    /\ Cardinality(ExactIdx(cols, StemPairs[k][1])) = 1
    /\ Cardinality(ExactIdx(cols, StemPairs[k][2])) = 1

UniquePrefix(cols, k) ==
    /\ Cardinality(PrefixIdx(cols, StemPairs[k][1])) = 1
    /\ Cardinality(PrefixIdx(cols, StemPairs[k][2])) = 1

\* C3: when stem pair k is the first pair with any unique match and its
\* match is exact (one name equals the longitude stem, one the latitude
\* stem, case ignored), the guesser returns those two names of the list, in
\* their original case.
C3_ExactMatchReturnsColumns ==
    guess_out.called =>
        \A k \in 1..Len(StemPairs) :
            ( /\ UniqueExact(guess_in, k)
              /\ \A j \in 1..(k-1) :
                    ~UniqueExact(guess_in, j) /\ ~UniquePrefix(guess_in, j) )
            => /\ \E i \in ExactIdx(guess_in, StemPairs[k][1]) :
                     guess_out.lon = guess_in[i]
               /\ \E i \in ExactIdx(guess_in, StemPairs[k][2]) :
                     guess_out.lat = guess_in[i]

\* C4: when no stem pair has a unique exact match for both stems nor a
\* unique prefix match for both stems, the guesser returns (None, None);
\* a stem inside a name, not at its start, counts for nothing.
C4_NoMatchReturnsNone ==
    ( /\ guess_out.called
      /\ \A k \in 1..Len(StemPairs) :
            ~UniqueExact(guess_in, k) /\ ~UniquePrefix(guess_in, k) )
    => guess_out.lon = None /\ guess_out.lat = None

\* the guesser has returned (None, None) for a list of two names, one that
\* equals dec and one that holds ra, but not at its start
C4_Witness ==
    /\ guess_out.called
    /\ guess_out.lon = None /\ guess_out.lat = None
    /\ Len(guess_in) = 2
    /\ Cardinality(ExactIdx(guess_in, <<"d","e","c">>)) = 1
    /\ \E i \in 1..Len(guess_in) : guess_in[i] = <<"p","m","_","r","a">>

\* C5: the table_layer_set messages of a layer are sent in the order in
\* which the trait changes they report were made (a column trait before the
\* unit its observer derives from it).
C5_SetMessagesInMutationOrder ==
    \A i, j \in 1..Len(msgs) :
        ( /\ i < j
          /\ msgs[i].id = msgs[j].id
          /\ msgs[i].event = "table_layer_set" /\ msgs[i].mut > 0
          /\ msgs[j].event = "table_layer_set" /\ msgs[j].mut > 0 )
        => msgs[i].mut < msgs[j].mut

\* C6: the first message with a layer's id is its only table_layer_create;
\* the next three are the forced table_layer_set of scaleFactor, color and
\* opacity with the default values; every later table_layer_set of the
\* layer reports a trait change (an override, a guess, an assignment).
C6_CreateThenDefaults ==
    \A id \in LayerIds :
        LET ms == MsgsOf(id)
        IN  /\ Len(ms) >= 4
            /\ ms[1].event = "table_layer_create"
            /\ \A i \in 2..Len(ms) : ms[i].event # "table_layer_create"
            /\ ms[2].event = "table_layer_set" /\ ms[2].setting = "scaleFactor"
            /\ ms[2].value = 10
            /\ ms[3].event = "table_layer_set" /\ ms[3].setting = "color"
            /\ ms[3].value = "white"
            /\ ms[4].event = "table_layer_set" /\ ms[4].setting = "opacity"
            /\ ms[4].value = 1
            /\ \A i \in 5..Len(ms) :
                  ms[i].event = "table_layer_set" => ms[i].mut > 0

\* a layer built with size_scale=5: a second scaleFactor message follows
\* the three forced ones
C6_Witness ==
    \E id \in LayerIds :
        /\ Live(id)
        /\ Len(MsgsOf(id)) >= 5
        /\ MsgsOf(id)[5].setting = "scaleFactor"
        /\ MsgsOf(id)[5].value = 5

\* C7: layer.alt_type = v with v outside VALID_ALT_TYPES raises, leaves
\* alt_type as it was, and sends no message.
C7_BadAltTypeRejected ==
    [][ ( /\ IsCall("set")
          /\ last'.arg[1] = "alt_type"
          /\ last'.arg[2] \notin VALID_ALT_TYPES )
        => /\ last'.raised
           /\ layers'[last'.id].alt_type = layers[last'.id].alt_type
           /\ msgs' = msgs ]_vars

\* an alt_type of depth has survived the assignment of bogus
C7_Witness ==
    /\ last.op = "set" /\ last.arg[1] = "alt_type" /\ last.arg[2] = "bogus"
    /\ last.raised /\ last.sent = 0
    /\ layers[last.id].alt_type = "depth"

\* the traits of a layer
Traits(L) == [name \in TraitNames |-> L[name]]

\* C8: an assignment to a trait that raises leaves every trait of the
\* layer, the assigned one included, as it was.
C8_FailedSetChangesNothing ==
    [][ (IsCall("set") /\ last'.raised)
        => Traits(layers'[last'.id]) = Traits(layers[last'.id]) ]_vars

\* the step is update_data, with the layer's own table, right after the
\* layer's constructor returned
RoundTripStep ==
    /\ last.op = "construct" /\ ~last.raised
    /\ IsCall("update_data")
    /\ last'.id = last.id
    /\ last'.arg = layers[last.id].table

RoundTripKeeps ==
    /\ layers'[last.id].lon_att = layers[last.id].lon_att
    /\ layers'[last.id].lat_att = layers[last.id].lat_att
    /\ layers'[last.id].alt_att = layers[last.id].alt_att

\* C9 as stated: after any construction that succeeded, update_data with
\* the same table leaves lon_att, lat_att and alt_att as they were.
C9_RoundTrip == [][RoundTripStep => RoundTripKeeps]_vars

\* the lon_att and lat_att keywords, where given, name columns of the table
OverridesNameColumns(kwargs, table) ==
    \A i \in 1..Len(kwargs) :
        kwargs[i][1] \in {"lon_att", "lat_att"}
            => InList(kwargs[i][2], ColNames(table))

\* C9 amended: after a construction that succeeded and whose lon_att and
\* lat_att keywords, where given, name columns of the table, update_data
\* with the same table leaves lon_att, lat_att and alt_att as they were.
C9_RoundTripValidOverrides ==
    [][ (RoundTripStep /\ OverridesNameColumns(last.arg, layers[last.id].table))
        => RoundTripKeeps ]_vars

\* update_data with the table of construction has returned for a layer
\* built with an altitude column, and the column is still selected
C9_Witness ==
    /\ last.n = 2 /\ last.op = "update_data" /\ ~last.raised
    /\ msgs[1].event = "table_layer_create"
    /\ msgs[1].value.table = last.arg
    /\ layers[1].alt_att = N_dist
    /\ InList(layers[1].lon_att, ColNames(layers[1].table))

\* C10: after a construction without lon_att and lat_att keywords that
\* returned, and after an update_data that returned, lon_att and lat_att
\* are names of columns of the layer's table.
C10_LonLatAreColumns ==
    ( \/ /\ last.op = "construct" /\ ~last.raised
         /\ "lon_att" \notin KwargKeys(last.arg)
         /\ "lat_att" \notin KwargKeys(last.arg)
      \/ last.op = "update_data" /\ ~last.raised )
    => /\ InList(layers[last.id].lon_att, ColNames(layers[last.id].table))
       /\ InList(layers[last.id].lat_att, ColNames(layers[last.id].table))

\* the display name of a position unit, of an altitude unit
LonToken(unit) ==
    CASE unit = "deg" -> "degrees"
      [] unit = "hour" -> "hours"
      [] unit = "hourangle" -> "hours"

AltToken(unit) ==
    CASE unit = "m" -> "meters" [] unit = "ft" -> "feet"
      [] unit = "inch" -> "inches" [] unit = "mi" -> "miles"
      [] unit = "km" -> "kilometers" [] unit = "AU" -> "astronomicalUnits"
      [] unit = "lyr" -> "lightYears" [] unit = "pc" -> "parsecs"
      [] unit = "Mpc" -> "megaParsecs"

\* C11: every table_layer_set for raUnits carries degrees or hours and
\* every one for altUnit carries one of the nine altitude display names,
\* never the unit itself; the message of a lon_unit or alt_unit assignment
\* that returned carries the display name of the unit the trait now holds
\* (hours for hour and for hourangle).
C11_UnitMessagesCarryTokens ==
    /\ [](\A i \in 1..Len(msgs) :
            /\ msgs[i].setting = "raUnits"
                  => msgs[i].value \in {"degrees", "hours"}
            /\ msgs[i].setting = "altUnit"
                  => msgs[i].value \in
                        {"meters", "feet", "inches", "miles", "kilometers",
                         "astronomicalUnits", "lightYears", "parsecs",
                         "megaParsecs"})
    /\ [][ (IsCall("set") /\ ~last'.raised /\ last'.sent > 0)
            => /\ last'.arg[1] = "lon_unit"
                    => /\ msgs'[Len(msgs')].setting = "raUnits"
                       /\ msgs'[Len(msgs')].value
                            = LonToken(layers'[last'.id].lon_unit[2])
               /\ last'.arg[1] = "alt_unit"
                    => /\ msgs'[Len(msgs')].setting = "altUnit"
                       /\ msgs'[Len(msgs')].value
                            = AltToken(layers'[last'.id].alt_unit[2]) ]_vars

\* lon_unit = 'hourangle' has been assigned and sent as hours
C11_Witness ==
    /\ last.op = "set" /\ ~last.raised /\ last.sent = 1
    /\ last.arg = <<"lon_unit", <<"str", "hourangle">> >>
    /\ layers[last.id].lon_unit = <<"unit", "hourangle">>
    /\ msgs[Len(msgs)].setting = "raUnits"
    /\ msgs[Len(msgs)].value = "hours"

\* C12: in every layer whose constructor returned, lon_unit is None or one
\* of the position units, alt_unit is None or one of the altitude units,
\* and alt_type is '' (its initial value) or one of VALID_ALT_TYPES,
\* whether the value was assigned, given as a keyword, or derived from a
\* column's unit.
C12_UnitsAndTypeInSets ==
    \A id \in LayerIds :
        Live(id) =>
            /\ \/ layers[id].lon_unit = NoUnit
               \/ /\ layers[id].lon_unit[1] = "unit"
                  /\ layers[id].lon_unit[2] \in {"deg", "hour", "hourangle"}
            /\ \/ layers[id].alt_unit = NoUnit
               \/ /\ layers[id].alt_unit[1] = "unit"
                  /\ layers[id].alt_unit[2] \in
                        {"m", "ft", "inch", "mi", "km", "AU", "lyr", "pc", "Mpc"}
            /\ layers[id].alt_type \in
                  {"", "depth", "altitude", "distance", "seaLevel", "terrain"}

\* a layer holds an altitude type that was assigned, a position unit
\* derived at construction, and the altitude unit km derived from a column
\* whose unit is 1000 m
C12_Witness ==
    \E id \in LayerIds :
        /\ Live(id)
        /\ layers[id].table = TabLower
        /\ layers[id].alt_att = N_dist
        /\ layers[id].alt_unit = <<"unit", "km">>
        /\ layers[id].lon_unit = <<"unit", "hourangle">>
        /\ layers[id].alt_type = "depth"

\* the value is '' or the name of a column of the table that has no unit
EmptyOrUnitless(value, table) ==
    \/ value = Empty
    \/ /\ InList(value, ColNames(table))
       /\ ColumnUnit(table, value) = "None"

\* C13: layer.alt_att = v, where v is not the current alt_att and is ''
\* or names a column without a unit, returns, stores v, leaves alt_unit as
\* it was, and sends exactly one message: table_layer_set of altColumn
\* with value v.
C13_UnitlessAltColumn ==
    [][ ( /\ IsCall("set")
          /\ last'.arg[1] = "alt_att"
          /\ last'.arg[2] # layers[last'.id].alt_att
          /\ EmptyOrUnitless(last'.arg[2], layers[last'.id].table) )
        => /\ ~last'.raised
           /\ layers'[last'.id].alt_att = last'.arg[2]
           /\ layers'[last'.id].alt_unit = layers[last'.id].alt_unit
           /\ Len(msgs') = Len(msgs) + 1
           /\ SubSeq(msgs', 1, Len(msgs)) = msgs
           /\ msgs'[Len(msgs')].event = "table_layer_set"
           /\ msgs'[Len(msgs')].id = last'.id
           /\ msgs'[Len(msgs')].setting = "altColumn"
           /\ msgs'[Len(msgs')].value = last'.arg[2] ]_vars

\* alt_att = 'Vmag' has been assigned on a layer whose alt_unit was feet,
\* and one altColumn message was sent
C13_Witness ==
    /\ last.op = "set" /\ ~last.raised /\ last.sent = 1
    /\ last.arg = <<"alt_att", N_Vmag>>
    /\ layers[last.id].table = TabSky
    /\ layers[last.id].alt_att = N_Vmag
    /\ layers[last.id].alt_unit = <<"unit", "ft">>
    /\ msgs[Len(msgs)].setting = "altColumn"

\* alt_att = '' has been assigned on a layer whose altitude column was
\* dist, and the unit derived from dist is still there
C13_WitnessEmpty ==
    /\ last.op = "set" /\ ~last.raised /\ last.sent = 1
    /\ last.arg = <<"alt_att", Empty>>
    /\ layers[last.id].alt_att = Empty
    /\ layers[last.id].alt_unit # NoUnit

\* C14: add_data_layer() without a table raises ValueError, and
\* remove_layer(layer) raises ValueError when the layer is not in the
\* manager's list (never added, or removed before); either call leaves the
\* list and every layer as they were and sends no message.
C14_ManagerValueErrors ==
    [][ ( \/ IsCall("add_data_layer_no_table")
          \/ IsCall("remove_layer") /\ ~InList(last'.id, mgr_layers) )
        => /\ last'.exc = "ValueError"
           /\ mgr_layers' = mgr_layers
           /\ layers' = layers
           /\ msgs' = msgs ]_vars

\* remove_layer has raised for a layer that was in the list and was
\* removed, while another layer is in the list
C14_Witness ==
    /\ last.op = "remove_layer" /\ last.exc = "ValueError" /\ last.sent = 0
    /\ layers[last.id].manager = "mgr" /\ layers[last.id].removed
    /\ Len(mgr_layers) >= 1

\* remove_layer has raised for a layer that was never added
C14_WitnessNeverAdded ==
    /\ last.op = "remove_layer" /\ last.exc = "ValueError"
    /\ layers[last.id].manager = "None" /\ ~layers[last.id].removed

\* add_data_layer() without a table has raised with a layer in the list
C14_WitnessNoTable ==
    /\ last.op = "add_data_layer_no_table" /\ last.exc = "ValueError"
    /\ Len(mgr_layers) >= 1

\* some keyword of the constructor call names no trait
HasUnknownKey(kwargs) ==
    \E i \in 1..Len(kwargs) :
        kwargs[i][1] \notin
            {"lon_att", "lon_unit", "lat_att", "alt_att", "alt_unit",
             "alt_type", "cmap_att", "size_att", "size_scale", "color",
             "opacity"}

\* C15: TableLayer(...) and add_data_layer(...) with a keyword that names
\* no trait raise KeyError; every trait of the object keeps its default
\* (no keyword is applied, the valid ones included); the only messages
\* sent are the create message and the three forced defaults, so no
\* table_layer_set reports a keyword; and the manager's list is unchanged.
C15_UnknownKeyword ==
    [][ ( /\ IsCall("construct") \/ IsCall("add_data_layer")
          /\ HasUnknownKey(last'.arg) )
        => /\ last'.exc = "KeyError"
           /\ layers'[last'.id].status = "failed"
           /\ Traits(layers'[last'.id]) = Traits(NewLayer(0, << >>, ""))
           /\ layers'[last'.id].size_scale = 10
           /\ mgr_layers' = mgr_layers
           /\ Len(msgs') = Len(msgs) + 4
           /\ msgs'[Len(msgs) + 1].event = "table_layer_create"
           /\ \A i \in (Len(msgs) + 2)..Len(msgs') :
                 /\ msgs'[i].event = "table_layer_set"
                 /\ msgs'[i].mut = 0
           /\ msgs'[Len(msgs) + 2].value = 10 ]_vars

\* add_data_layer(table, colour='red', size_scale=5) has raised KeyError
\* with a layer in the manager's list, and size_scale is still 10
C15_Witness ==
    /\ last.op = "add_data_layer" /\ last.exc = "KeyError"
    /\ Len(last.arg) = 2 /\ last.arg[2] = <<"size_scale", 5>>
    /\ layers[last.id].size_scale = 10
    /\ Len(mgr_layers) >= 1
    /\ ~InList(last.id, mgr_layers)

\* the table_layer_set messages of a layer for one setting, in order
SetMsgsOf(id, setting) ==
    SelectSeq(msgs, LAMBDA m : /\ m.id = id
                               /\ m.event = "table_layer_set"
                               /\ m.setting = setting)

\* the value a table_layer_set carries for the trait's current value
RemoteValue(L, name) ==
    CASE name = "lon_unit" -> LonToken(L.lon_unit[2])
      [] name = "alt_unit" -> AltToken(L.alt_unit[2])
      [] OTHER -> L[name]

\* C16: for every layer whose constructor returned and every trait, after
\* any calls on the layer, those that raised included: if a
\* table_layer_set for the trait's setting was ever sent, the last one
\* carries the trait's current value (its display name for a unit), and if
\* none was sent the trait still has its default.
C16_RemoteViewConsistent ==
    \A id \in LayerIds :
        Live(id) =>
            \A name \in TraitNames :
                LET ms == SetMsgsOf(id, WwtName(name))
                IN  IF ms = << >>
                    THEN layers[id][name] = NewLayer(0, << >>, "")[name]
                    ELSE ms[Len(ms)].value = RemoteValue(layers[id], name)

\* the layer was built by add_data_layer (which passes frame='Sky'; a
\* layer built directly has no frame here)
ViaManager(id) == layers[id].frame = "Sky"

\* the ids the parent was told to create and not told to remove
RemoteLayerIds ==
    {id \in LayerIds :
        /\ \E i \in 1..Len(msgs) :
              msgs[i].id = id /\ msgs[i].event = "table_layer_create"
        /\ RemoveCount(id) = 0}

\* C17: as long as every layer was built by add_data_layer, the ids with a
\* table_layer_create and no table_layer_remove sent are exactly the ids
\* of the layers in the manager's list.
C17_RemoteLayersAreManagerLayers ==
    (\A id \in LayerIds : ViaManager(id))
        => RemoteLayerIds = {mgr_layers[i] : i \in 1..Len(mgr_layers)}

\* C18: no message with a layer's id is sent after the table_layer_remove
\* with that id.
C18_NoMessageAfterRemove ==
    \A i, j \in 1..Len(msgs) :
        (i < j /\ msgs[i].event = "table_layer_remove")
            => msgs[j].id # msgs[i].id

\* C19: remove() or remove_layer(layer) called on a layer of the manager's
\* list returns without an exception, with remove() and remove_layer()
\* each entered at most twice in all; afterwards the layer's removed flag
\* is set and the list is the old one without the layer, the others in
\* their order.
C19_RemoveRecursionTerminates ==
    [][ ( /\ IsCall("remove") \/ IsCall("remove_layer")
          /\ InList(last'.id, mgr_layers) )
        => /\ ~last'.raised
           /\ last'.entered[1] <= 2
           /\ last'.entered[2] <= 2
           /\ layers'[last'.id].removed
           /\ ~InList(last'.id, mgr_layers')
           /\ mgr_layers' = SelectSeq(mgr_layers, LAMBDA x : x # last'.id) ]_vars

\* remove_layer has returned for the second of three layers of the list,
\* having entered remove() twice and remove_layer() twice
C19_Witness ==
    /\ last.op = "remove_layer" /\ ~last.raised
    /\ last.id = 2
    /\ last.entered = <<2, 2>>
    /\ mgr_layers = <<1, 3>>
    /\ layers[2].removed

\* remove() has returned for a layer of the list, having entered remove()
\* twice and remove_layer() once
C19_WitnessRemoveFirst ==
    /\ last.op = "remove" /\ ~last.raised
    /\ last.entered = <<2, 1>>
    /\ layers[last.id].removed /\ layers[last.id].manager = "mgr"

====
